---- MODULE Spec2Model ----
(***************************************************************************)
(* A model of the Wayland client of src/main.rs: the WaylandClient object  *)
(* (object table, id counter, interface catalog, byte stream), its three   *)
(* operations send_sync, get_registry and process_message, and the session *)
(* that main drives over them.  Bytes are modelled as integers 0..255 and  *)
(* the stream as byte sequences, so that framing and field decoding are    *)
(* computed the way the code computes them.                                *)
(***************************************************************************)
EXTENDS Integers, Sequences, FiniteSets, TLC

VARIABLES
    objects,              \* WaylandClient.objects: id -> interface string
    next_id,              \* WaylandClient.next_id
    registry_interfaces,  \* WaylandClient.registry_interfaces: name -> <<interface, version>>
    stream_in,            \* bytes the peer has delivered and the client has not read yet
    stream_out,           \* bytes of the requests the client has written in full
    transport,            \* "open", "closed" (peer closed cleanly) or "error" (I/O failure)
    consumed,             \* number of inbound bytes the client has read so far
    sent,                 \* number of chunks the peer has delivered
    stdout,               \* lines printed so far
    result,               \* the last call of a WaylandClient operation and what it returned
    frame,                \* locals of the last process_message call
    big_endian,           \* byte order of the host (to_ne_bytes / from_ne_bytes)
    pc,                   \* position of main
    count                 \* main's loop counter

vars == <<objects, next_id, registry_interfaces, stream_in, stream_out, transport,
          consumed, sent, stdout, result, frame, big_endian, pc, count>>

client == <<objects, next_id, registry_interfaces, stream_out, stdout, result, frame>>

(***************************************************************************)
(* Bounds of the model.                                                    *)
(***************************************************************************)
MaxSends == 2     \* calls of send_sync / get_registry on one client
MaxMsgs == 2      \* chunks the peer delivers in one session
MaxPending == 13  \* the peer delivers while fewer than this many bytes are unread
MaxText == 3      \* bytes of text in a global event drawn for DecodeSpec
MaxPad == 4       \* NUL bytes after that text
MaxBurst == 22    \* events the peer delivers in one session of BudgetSpec

(***************************************************************************)
(* Program constants.                                                      *)
(***************************************************************************)
WL_DISPLAY_SYNC == 0
WL_DISPLAY_GET_REGISTRY == 1
DISPLAY_ID == 1
HeaderLen == 8

\* a loop bound one message too generous
MessageBudget_OffByOne == 20 + 1

MessageBudget == 20

(***************************************************************************)
(* Byte-level helpers: u32 <-> 4 bytes in the host's byte order.           *)
(***************************************************************************)
Reverse4(b) == <<b[4], b[3], b[2], b[1]>>

ToLeBytes(v) ==
    <<v % 256, (v \div 256) % 256, (v \div 65536) % 256, (v \div 16777216) % 256>>

ToNeBytes(v, big) == IF big THEN Reverse4(ToLeBytes(v)) ELSE ToLeBytes(v)

FromLeBytes(b) == b[1] + 256 * b[2] + 65536 * b[3] + 16777216 * b[4]

FromNeBytes(b, big) == IF big THEN FromLeBytes(Reverse4(b)) ELSE FromLeBytes(b)

\* String::from_utf8_lossy on bytes that are ASCII or 0xFF: an ASCII byte is its own
\* code point, 0xFF is never valid UTF-8 and becomes U+FFFD.
FromUtf8Lossy(bytes) ==
    [i \in 1..Len(bytes) |-> IF bytes[i] < 128 THEN bytes[i] ELSE 65533]

\* bytes[from..to) with 0-based offsets, as a Rust slice
Slice(bytes, from, to) == SubSeq(bytes, from + 1, to)

(***************************************************************************)
(* HashMap::insert and the id allocator.                                   *)
(***************************************************************************)
Insert(map, k, v) == [x \in DOMAIN map \cup {k} |-> IF x = k THEN v ELSE map[x]]

\* the allocator without its increment
NextIdAfter_Stuck(n) == n

\* next_object_id: self.next_id += 1
NextIdAfter(n) == n + 1

(***************************************************************************)
(* Requests: the 12 bytes send_sync and get_registry build.                *)
(***************************************************************************)
SyncMsg(callback_id, big) ==
    ToNeBytes(DISPLAY_ID, big) \o <<12, 0, 0, 0>> \o ToNeBytes(callback_id, big)

GetRegistryMsg(registry_id, big) ==
    ToNeBytes(DISPLAY_ID, big)
        \o ToNeBytes(12 + WL_DISPLAY_GET_REGISTRY * 65536, big)
        \o ToNeBytes(registry_id, big)

\* write_all: succeeds on an open transport, fails on a failed one, and may do
\* either once the peer has closed its end.
WriteOutcomes(tr) ==
    IF tr = "open" THEN {"Ok"} ELSE IF tr = "error" THEN {"Err"} ELSE {"Ok", "Err"}

\* a send that registers the id before it writes
Send_RegisterFirst(op, msg, tag) ==
    LET id == next_id IN
    /\ next_id' = NextIdAfter(next_id)
    /\ objects' = Insert(objects, id, tag)
    /\ \E w \in WriteOutcomes(transport) :
          IF w = "Ok"
          THEN /\ stream_out' = stream_out \o msg
               /\ result' = [op |-> op, ret |-> "Ok", val |-> id]
          ELSE /\ stream_out' = stream_out
               /\ result' = [op |-> op, ret |-> "Err", val |-> 0]
    /\ UNCHANGED <<registry_interfaces, stream_in, transport, consumed, sent, stdout,
                   frame, big_endian>>

\* the common shape of send_sync and get_registry: allocate, build, write, register
Send(op, msg, tag) ==
    LET id == next_id IN
    /\ next_id' = NextIdAfter(next_id)
    /\ \E w \in WriteOutcomes(transport) :
          IF w = "Ok"
          THEN /\ stream_out' = stream_out \o msg
               /\ objects' = Insert(objects, id, tag)
               /\ result' = [op |-> op, ret |-> "Ok", val |-> id]
          ELSE /\ stream_out' = stream_out
               /\ objects' = objects
               /\ result' = [op |-> op, ret |-> "Err", val |-> 0]
    /\ UNCHANGED <<registry_interfaces, stream_in, transport, consumed, sent, stdout,
                   frame, big_endian>>

send_sync == Send("send_sync", SyncMsg(next_id, big_endian), "wl_callback")

get_registry == Send("get_registry", GetRegistryMsg(next_id, big_endian), "wl_registry")

(***************************************************************************)
(* process_message: header decoding.                                       *)
(***************************************************************************)
\* size_opcode >> 16
HeaderSize(size_opcode) == size_opcode \div 65536

\* (size_opcode & 0xFFFF) as u16
HeaderOpcode(size_opcode) == size_opcode % 65536

DecodeHeader(header, big) ==
    LET size_opcode == FromNeBytes(Slice(header, 4, 8), big) IN
    [obj_id |-> FromNeBytes(Slice(header, 0, 4), big),
     size   |-> HeaderSize(size_opcode),
     opcode |-> HeaderOpcode(size_opcode)]

\* the body length taken to be the whole declared size
BodySize_Whole(size) == size

\* size as usize - 8.  A negative value stands for the subtraction's overflow: a
\* build with overflow checks panics at the subtraction, a build without them
\* wraps to a length above isize::MAX and panics in vec![0u8; body_size].
BodySize(size) == size - HeaderLen

\* read_exact with end-of-stream reported like any other failure
ReadExact_EofIsError(avail, n, tr) ==
    IF avail >= n THEN "Ok" ELSE IF tr = "open" THEN "WouldBlock" ELSE "Other"

\* read_exact of n bytes when `avail` bytes are buffered
ReadExact(avail, n, tr) ==
    IF avail >= n THEN "Ok"
    ELSE IF tr = "closed" THEN "UnexpectedEof"
    ELSE IF tr = "error" THEN "Other"
    ELSE "WouldBlock"

(***************************************************************************)
(* process_message: the registry `global` event.                           *)
(***************************************************************************)
\* while interface_end < body.len() && body[interface_end] != 0 { interface_end += 1 }
\* a scan that gives up one byte before the end of the buffer
RECURSIVE InterfaceEnd_StopsEarly(_, _)
InterfaceEnd_StopsEarly(body, i) ==
    IF i < Len(body) - 1 /\ body[i + 1] # 0 THEN InterfaceEnd_StopsEarly(body, i + 1) ELSE i

RECURSIVE InterfaceEnd(_, _)
InterfaceEnd(body, i) ==
    IF i < Len(body) /\ body[i + 1] # 0 THEN InterfaceEnd(body, i + 1) ELSE i

\* the offset rounded up to a multiple of 4, an aligned offset left where it is
VersionStart_Align4(interface_end) == ((interface_end + 3) \div 4) * 4

\* (interface_end + 4) & !3
VersionStart(interface_end) == ((interface_end + 4) \div 4) * 4

\* the version read, or the default 0
Version(body, version_start, big) ==
    IF version_start + 4 <= Len(body)
    THEN FromNeBytes(Slice(body, version_start, version_start + 4), big)
    ELSE 0

\* the fields of a global event whose body holds the name
GlobalFields(body, big) ==
    LET interface_end == InterfaceEnd(body, 4) IN
    [panic     |-> FALSE,
     name      |-> FromNeBytes(Slice(body, 0, 4), big),
     interface |-> FromUtf8Lossy(Slice(body, 4, interface_end)),
     version   |-> Version(body, VersionStart(interface_end), big)]

\* the global event decoded without the bounds check on the version field
Global_Unchecked(body, big) ==
    IF Len(body) < 4 \/ VersionStart(InterfaceEnd(body, 4)) + 4 > Len(body)
    THEN [panic |-> TRUE, name |-> 0, interface |-> <<>>, version |-> 0]
    ELSE GlobalFields(body, big)

\* the global event as decoded; indexing body[0..3] panics on a body under 4 bytes
Global(body, big) ==
    IF Len(body) < 4
    THEN [panic |-> TRUE, name |-> 0, interface |-> <<>>, version |-> 0]
    ELSE GlobalFields(body, big)

\* an insert that keeps the entry a name already has
CatalogInsert_KeepFirst(cat, g) ==
    IF g.name \in DOMAIN cat THEN cat ELSE Insert(cat, g.name, <<g.interface, g.version>>)

\* self.registry_interfaces.insert(name, (interface.clone(), version))
CatalogInsert(cat, g) == Insert(cat, g.name, <<g.interface, g.version>>)

\* a lookup that takes an unregistered id for the registry
ObjType_Default(objs, obj_id) ==
    IF obj_id \in DOMAIN objs THEN objs[obj_id] ELSE "wl_registry"

\* self.objects.get(&obj_id).cloned()
ObjType(objs, obj_id) == IF obj_id \in DOMAIN objs THEN objs[obj_id] ELSE "None"

\* the dispatch with every registry event taken for a global event
Dispatch_AnyOpcode(obj_type, obj_id, opcode, body, cat, big) ==
    IF obj_type = "wl_registry"
    THEN IF opcode >= 0
         THEN LET g == Global(body, big) IN
              IF g.panic
              THEN [panic |-> TRUE, cat |-> cat, out |-> <<>>]
              ELSE [panic |-> FALSE,
                    cat   |-> CatalogInsert(cat, g),
                    out   |-> << <<"Global", g.interface, g.name, g.version>> >>]
         ELSE [panic |-> FALSE, cat |-> cat, out |-> <<>>]
    ELSE IF obj_type = "wl_callback"
    THEN [panic |-> FALSE, cat |-> cat,
          out |-> IF opcode = 0 THEN << <<"Sync callback received">> >> ELSE <<>>]
    ELSE [panic |-> FALSE, cat |-> cat,
          out |-> << <<"Unknown object", obj_id, opcode>> >>]

\* match obj_type.as_deref() { ... }: the catalog afterwards and the lines printed
Dispatch(obj_type, obj_id, opcode, body, cat, big) ==
    IF obj_type = "wl_registry"
    THEN IF opcode = 0
         THEN LET g == Global(body, big) IN
              IF g.panic
              THEN [panic |-> TRUE, cat |-> cat, out |-> <<>>]
              ELSE [panic |-> FALSE,
                    cat   |-> CatalogInsert(cat, g),
                    out   |-> << <<"Global", g.interface, g.name, g.version>> >>]
         ELSE [panic |-> FALSE, cat |-> cat, out |-> <<>>]
    ELSE IF obj_type = "wl_callback"
    THEN [panic |-> FALSE, cat |-> cat,
          out |-> IF opcode = 0 THEN << <<"Sync callback received">> >> ELSE <<>>]
    ELSE [panic |-> FALSE, cat |-> cat,
          out |-> << <<"Unknown object", obj_id, opcode>> >>]

(***************************************************************************)
(* process_message as a whole: what one call does to a client whose unread *)
(* input is `buf`.  `blocked` says that the call is still waiting in a     *)
(* read_exact for bytes the peer has not delivered.                        *)
(***************************************************************************)
NoFrame == [read |-> "none", obj_id |-> 0, size |-> 0, opcode |-> 0, body |-> <<>>]

\* process_message with the end of stream in the body read handled like the one
\* in the header read
ProcessMessage_BodyEofIsEnd(buf, tr, objs, cat, big) ==
    LET h == ReadExact(Len(buf), HeaderLen, tr) IN
    IF h # "Ok"
    THEN \* the header read failed: UnexpectedEof is Ok(false), anything else Err(e)
         [blocked |-> h = "WouldBlock",
          ret     |-> IF h = "UnexpectedEof" THEN "Ok(false)" ELSE "Err",
          used    |-> Len(buf), cat |-> cat, out |-> <<>>, frame |-> NoFrame]
    ELSE LET hdr       == DecodeHeader(Slice(buf, 0, HeaderLen), big)
             body_size == BodySize(hdr.size)
             got       == [read |-> "header", obj_id |-> hdr.obj_id, size |-> hdr.size,
                           opcode |-> hdr.opcode, body |-> <<>>]
         IN
         IF body_size < 0
         THEN [blocked |-> FALSE, ret |-> "panic", used |-> HeaderLen, cat |-> cat,
               out |-> <<>>, frame |-> got]
         ELSE LET b == ReadExact(Len(buf) - HeaderLen, body_size, tr) IN
              IF b # "Ok"
              THEN
                   [blocked |-> b = "WouldBlock",
                    ret |-> IF b = "UnexpectedEof" THEN "Ok(false)" ELSE "Err",
                    used |-> Len(buf),
                    cat |-> cat, out |-> <<>>, frame |-> got]
              ELSE LET body == Slice(buf, HeaderLen, HeaderLen + body_size)
                       d    == Dispatch(ObjType(objs, hdr.obj_id), hdr.obj_id,
                                        hdr.opcode, body, cat, big)
                   IN
                   [blocked |-> FALSE,
                    ret     |-> IF d.panic THEN "panic" ELSE "Ok(true)",
                    used    |-> HeaderLen + body_size,
                    cat     |-> d.cat,
                    out     |-> d.out,
                    frame   |-> [got EXCEPT !.read = "body", !.body = body]]

ProcessMessage(buf, tr, objs, cat, big) ==
    LET h == ReadExact(Len(buf), HeaderLen, tr) IN
    IF h # "Ok"
    THEN \* the header read failed: UnexpectedEof is Ok(false), anything else Err(e)
         [blocked |-> h = "WouldBlock",
          ret     |-> IF h = "UnexpectedEof" THEN "Ok(false)" ELSE "Err",
          used    |-> Len(buf), cat |-> cat, out |-> <<>>, frame |-> NoFrame]
    ELSE LET hdr       == DecodeHeader(Slice(buf, 0, HeaderLen), big)
             body_size == BodySize(hdr.size)
             got       == [read |-> "header", obj_id |-> hdr.obj_id, size |-> hdr.size,
                           opcode |-> hdr.opcode, body |-> <<>>]
         IN
         IF body_size < 0
         THEN [blocked |-> FALSE, ret |-> "panic", used |-> HeaderLen, cat |-> cat,
               out |-> <<>>, frame |-> got]
         ELSE LET b == ReadExact(Len(buf) - HeaderLen, body_size, tr) IN
              IF b # "Ok"
              THEN \* self.stream.read_exact(&mut body)?
                   [blocked |-> b = "WouldBlock", ret |-> "Err", used |-> Len(buf),
                    cat |-> cat, out |-> <<>>, frame |-> got]
              ELSE LET body == Slice(buf, HeaderLen, HeaderLen + body_size)
                       d    == Dispatch(ObjType(objs, hdr.obj_id), hdr.obj_id,
                                        hdr.opcode, body, cat, big)
                   IN
                   [blocked |-> FALSE,
                    ret     |-> IF d.panic THEN "panic" ELSE "Ok(true)",
                    used    |-> HeaderLen + body_size,
                    cat     |-> d.cat,
                    out     |-> d.out,
                    frame   |-> [got EXCEPT !.read = "body", !.body = body]]

\* one call of process_message on the client; `more` is what the caller prints next
process_message(more) ==
    LET r == ProcessMessage(stream_in, transport, objects, registry_interfaces,
                            big_endian)
    IN
    /\ ~r.blocked
    /\ registry_interfaces' = r.cat
    /\ stdout' = stdout \o r.out \o (IF r.ret = "Ok(false)" THEN more ELSE <<>>)
    /\ stream_in' = Slice(stream_in, r.used, Len(stream_in))
    /\ consumed' = consumed + r.used
    /\ frame' = r.frame
    /\ result' = [op |-> "process_message", ret |-> r.ret, val |-> 0]
    /\ UNCHANGED <<objects, next_id, stream_out, transport, sent, big_endian>>

(***************************************************************************)
(* The peer: the events a compositor may deliver, in the wire format.      *)
(***************************************************************************)
Zeros(n) == [i \in 1..n |-> 0]

\* a whole event: object id, size << 16 | opcode, body
Message(obj_id, opcode, body, big) ==
    ToNeBytes(obj_id, big) \o ToNeBytes((HeaderLen + Len(body)) * 65536 + opcode, big)
        \o body

\* a bare header declaring `size`
RawHeader(obj_id, size, opcode, big) ==
    ToNeBytes(obj_id, big) \o ToNeBytes(size * 65536 + opcode, big)

\* the text with its terminating NUL, padded with NULs to a multiple of 4
PaddedString(text) == text \o Zeros(((Len(text) + 4) \div 4) * 4 - Len(text))

\* a wire-format string: u32 length (terminator included), then the padded text
WireString(text, big) == ToNeBytes(Len(text) + 1, big) \o PaddedString(text)

\* the body of `global` as the wire format lays it out
WireGlobalBody(name, text, version, big) ==
    ToNeBytes(name, big) \o WireString(text, big) \o ToNeBytes(version, big)

\* the body of `global` without the string's length prefix
BareGlobalBody(name, text, version, big) ==
    ToNeBytes(name, big) \o PaddedString(text) \o ToNeBytes(version, big)

WlShm == <<119, 108, 95, 115, 104, 109>>    \* "wl_shm"

Events(big) ==
    { Message(3, 0, WireGlobalBody(5, WlShm, 1, big), big),
      Message(3, 0, BareGlobalBody(5, WlShm, 2, big), big),
      Message(3, 0, ToNeBytes(6, big) \o <<97, 255>>, big),
      Message(3, 0, <<>>, big),
      Message(3, 1, ToNeBytes(5, big), big),
      Message(2, 0, ToNeBytes(7, big), big),
      Message(9, 0, ToNeBytes(7, big), big),
      Message(1, 1, ToNeBytes(2, big), big),
      RawHeader(9, 0, 0, big) }

\* the deliveries the peer may cut short by closing, and where it cuts them
CutEvents(big) ==
    { Message(3, 0, WireGlobalBody(5, WlShm, 1, big), big),
      Message(9, 0, ToNeBytes(7, big), big) }

TruncateAt == {3, 10}

(***************************************************************************)
(* States and steps.                                                       *)
(***************************************************************************)
EmptyMap == [x \in {} |-> 0]

NoResult == [op |-> "none", ret |-> "none", val |-> 0]

\* WaylandClient::new, any host byte order; pc0 is where the caller stands
New(pc0) ==
    /\ objects = Insert(EmptyMap, DISPLAY_ID, "wl_display")
    /\ next_id = 2
    /\ registry_interfaces = EmptyMap
    /\ stream_in = <<>>
    /\ stream_out = <<>>
    /\ transport = "open"
    /\ consumed = 0
    /\ sent = 0
    /\ stdout = <<>>
    /\ result = NoResult
    /\ frame = NoFrame
    /\ big_endian \in BOOLEAN
    /\ pc = pc0
    /\ count = 0

\* the process has neither panicked nor left main
Running == result.ret # "panic" /\ pc \notin {"done", "failed", "panicked"}

ServerSend ==
    /\ Running /\ transport = "open" /\ sent < MaxMsgs /\ Len(stream_in) < MaxPending
    /\ \E m \in Events(big_endian) : stream_in' = stream_in \o m
    /\ sent' = sent + 1
    /\ UNCHANGED <<client, transport, consumed, big_endian, pc, count>>

ServerTruncate ==
    /\ Running /\ transport = "open" /\ sent < MaxMsgs /\ Len(stream_in) < MaxPending
    /\ \E m \in CutEvents(big_endian) : \E k \in TruncateAt :
          /\ k < Len(m)
          /\ stream_in' = stream_in \o SubSeq(m, 1, k)
    /\ sent' = sent + 1
    /\ transport' = "closed"
    /\ UNCHANGED <<client, consumed, big_endian, pc, count>>

ServerClose ==
    /\ Running /\ transport = "open"
    /\ transport' = "closed"
    /\ UNCHANGED <<client, stream_in, consumed, sent, big_endian, pc, count>>

TransportFail ==
    /\ Running /\ transport = "open"
    /\ transport' = "error"
    /\ UNCHANGED <<client, stream_in, consumed, sent, big_endian, pc, count>>

Peer == ServerSend \/ ServerTruncate \/ ServerClose \/ TransportFail

(***************************************************************************)
(* Spec: a client driven by any sequence of calls of its operations.       *)
(***************************************************************************)
Init == New("lib")

CallSendSync ==
    /\ pc = "lib" /\ Running /\ next_id < 2 + MaxSends
    /\ send_sync
    /\ UNCHANGED <<pc, count>>

CallGetRegistry ==
    /\ pc = "lib" /\ Running /\ next_id < 2 + MaxSends
    /\ get_registry
    /\ UNCHANGED <<pc, count>>

CallProcessMessage ==
    /\ pc = "lib" /\ Running
    /\ process_message(<<>>)
    /\ UNCHANGED <<pc, count>>

Next == CallSendSync \/ CallGetRegistry \/ CallProcessMessage \/ Peer

Spec == Init /\ [][Next]_vars

(***************************************************************************)
(* MainSpec: the session main drives.                                      *)
(***************************************************************************)
MainInit == New("send_sync")

\* main going from the sync request straight to the message loop
MainSendSync_SkipRegistry ==
    /\ pc = "send_sync"
    /\ send_sync
    /\ pc' = IF result'.ret = "Ok" THEN "loop" ELSE "failed"
    /\ UNCHANGED count

MainSendSync ==
    /\ pc = "send_sync"
    /\ send_sync
    /\ pc' = IF result'.ret = "Ok" THEN "get_registry" ELSE "failed"
    /\ UNCHANGED count

MainGetRegistry ==
    /\ pc = "get_registry"
    /\ get_registry
    /\ pc' = IF result'.ret = "Ok" THEN "loop" ELSE "failed"
    /\ UNCHANGED count

\* while count < 20 { if !client.process_message()? { println!(..); break; } count += 1; }
MainLoop ==
    /\ pc = "loop" /\ Running
    /\ IF count < MessageBudget
       THEN /\ process_message(<< <<"Server closed connection">> >>)
            /\ count' = IF result'.ret = "Ok(true)" THEN count + 1 ELSE count
            /\ pc' = IF result'.ret = "Ok(true)" THEN "loop"
                     ELSE IF result'.ret = "Ok(false)" THEN "print_info"
                     ELSE IF result'.ret = "Err" THEN "failed"
                     ELSE "panicked"
       ELSE /\ pc' = "print_info"
            /\ UNCHANGED <<client, stream_in, transport, consumed, sent, big_endian,
                           count>>

\* client.print_info(); Ok(())
MainPrintInfo ==
    /\ pc = "print_info"
    /\ stdout' = Append(stdout, <<"Wayland Server Info", registry_interfaces,
                                  Cardinality(DOMAIN registry_interfaces)>>)
    /\ pc' = "done"
    /\ UNCHANGED <<objects, next_id, registry_interfaces, stream_in, stream_out,
                   transport, consumed, sent, result, frame, big_endian, count>>

MainNext == MainSendSync \/ MainGetRegistry \/ MainLoop \/ MainPrintInfo \/ Peer

MainSpec == MainInit /\ [][MainNext]_vars

(***************************************************************************)
(* Properties.                                                             *)
(***************************************************************************)
IsSend(r) == r.op \in {"send_sync", "get_registry"}

\* the last call was process_message and it read a header and the whole body
Dispatched ==
    result.op = "process_message" /\ frame.read = "body"

\* C1: id 1 always maps to the display and is never handed out or registered
\* again; every id the allocator hands out is at least 2 and greater than every
\* id handed out before, whatever calls are made.
C1_IdsMonotonic ==
    /\ [](/\ DISPLAY_ID \in DOMAIN objects
          /\ objects[DISPLAY_ID] = "wl_display"
          /\ next_id >= 2
          /\ \A id \in DOMAIN objects \ {DISPLAY_ID} : 2 <= id /\ id < next_id)
    /\ [][(next_id' # next_id \/ stream_out' # stream_out)
            => /\ next_id' > next_id
               /\ next_id > DISPLAY_ID
               /\ result'.ret = "Ok"
                    => /\ result'.val = next_id
                       /\ result'.val \notin DOMAIN objects
                       /\ objects' = Insert(objects, next_id, objects'[next_id])]_vars

\* three ids were handed out, with messages processed in between
C1_Witness ==
    /\ next_id = 4 /\ DOMAIN objects = {1, 2, 3}
    /\ result.op = "process_message" /\ result.ret = "Ok(true)"

\* the last request written, and the header the decoder of process_message reads
LastRequest == Slice(stream_out, Len(stream_out) - 12, Len(stream_out))

\* C2: the 12 bytes send_sync (get_registry) writes decode, by the header and body
\* decoding of process_message, to object 1, opcode 0 (1), size 12 and a 4-byte
\* payload equal to the new id.
C2_RoundTrip ==
    (IsSend(result) /\ result.ret = "Ok")
        => LET hdr == DecodeHeader(Slice(LastRequest, 0, HeaderLen), big_endian) IN
           /\ hdr.obj_id = DISPLAY_ID
           /\ hdr.opcode = (IF result.op = "send_sync" THEN WL_DISPLAY_SYNC
                            ELSE WL_DISPLAY_GET_REGISTRY)
           /\ hdr.size = 12
           /\ BodySize(hdr.size) = 4
           /\ FromNeBytes(Slice(LastRequest, HeaderLen, hdr.size), big_endian)
                 = result.val

\* C3: a registry global event laid out as the wire format states leaves the
\* catalog mapping the name to exactly (interface, version); name 5, "wl_shm",
\* version 1 gives catalog[5] = ("wl_shm", 1).
C3_WireGlobalDecoded ==
    (/\ Dispatched
     /\ ObjType(objects, frame.obj_id) = "wl_registry"
     /\ frame.opcode = 0
     /\ frame.body = WireGlobalBody(5, WlShm, 1, big_endian))
        => /\ result.ret = "Ok(true)"
           /\ 5 \in DOMAIN registry_interfaces
           /\ registry_interfaces[5] = <<WlShm, 1>>

\* C4: a message whose header and whole declared body were read never ends the
\* session: process_message returns Ok(true), whatever the body holds.
C4_PayloadNeverFatal ==
    Dispatched => result.ret = "Ok(true)"

\* the header at the front of the unread input, for states holding 8 bytes of it
NextHeader == DecodeHeader(Slice(stream_in, 0, HeaderLen), big_endian)

\* the unread input starts with a whole message: a header declaring at least its
\* own length, and all the bytes it declares
WholeMessage ==
    /\ Len(stream_in) >= HeaderLen
    /\ NextHeader.size >= HeaderLen
    /\ Len(stream_in) >= NextHeader.size

\* a step in which process_message consumed input
Reads == consumed' # consumed

\* C5: a whole message addressed to an id absent from the object table is
\* reported as unknown, leaves the catalog alone, returns Ok(true) and consumes
\* exactly the declared size, so the unread input starts at the next header.
C5_UnknownObject ==
    [][(Reads /\ WholeMessage /\ NextHeader.obj_id \notin DOMAIN objects)
         => /\ result'.ret = "Ok(true)"
            /\ registry_interfaces' = registry_interfaces
            /\ consumed' = consumed + NextHeader.size
            /\ stream_in' = Slice(stream_in, NextHeader.size, Len(stream_in))
            /\ stdout' = Append(stdout, <<"Unknown object", NextHeader.obj_id, NextHeader.opcode>>)
       ]_vars

\* a message to an unknown id was handled and the message after it was then
\* decoded as the registry global it is
C5_Witness ==
    /\ Len(stdout) = 2
    /\ stdout[1] = <<"Unknown object", 9, 0>>
    /\ stdout[2][1] = "Global"
    /\ result.ret = "Ok(true)"

\* C6: whatever its object id and opcode, a message process_message handles takes
\* exactly its declared size off the stream: the position advances by `size` and
\* the unread input starts at the byte after the message.
C6_FramingBySize ==
    [][(Reads /\ Len(stream_in) >= HeaderLen /\ result'.ret = "Ok(true)")
         => /\ consumed' = consumed + NextHeader.size
            /\ stream_in' = Slice(stream_in, NextHeader.size, Len(stream_in))
            /\ Len(frame'.body) = NextHeader.size - HeaderLen
       ]_vars

\* two messages of different kinds and sizes were handled one after the other
C6_Witness ==
    /\ result.op = "process_message" /\ result.ret = "Ok(true)"
    /\ consumed > frame.size
    /\ consumed # 2 * frame.size
    /\ Len(stdout) = 2 /\ stdout[1][1] # stdout[2][1]

\* C7: every header process_message decodes declares a size of at least 8, and
\* the body read for it has size - 8 bytes; a smaller declared size never crashes.
C7_SizeAtLeastHeader ==
    (result.op = "process_message" /\ frame.read # "none")
        => /\ frame.size >= HeaderLen
           /\ result.ret # "panic" \/ frame.read = "body"
           /\ frame.read = "body" => Len(frame.body) = frame.size - HeaderLen

\* the global events dispatched so far, in arrival order, as printed
IsGlobalLine(line) == line[1] = "Global"

GlobalLines == SelectSeq(stdout, IsGlobalLine)

\* C8: the catalog has exactly one entry per name seen in a global event, and it
\* is the entry of the last such event in arrival order.
C8_LastWriterWins ==
    LET gl    == GlobalLines
        names == {gl[i][3] : i \in 1..Len(gl)}
    IN
    /\ DOMAIN registry_interfaces = names
    /\ Cardinality(DOMAIN registry_interfaces) = Cardinality(names)
    /\ \A n \in names :
          LET last == CHOOSE i \in 1..Len(gl) :
                         gl[i][3] = n /\ \A j \in (i + 1)..Len(gl) : gl[j][3] # n
          IN registry_interfaces[n] = <<gl[last][2], gl[last][4]>>

\* two global events named the same global with different contents
C8_Witness ==
    /\ Len(GlobalLines) = 2
    /\ GlobalLines[1][3] = GlobalLines[2][3]
    /\ GlobalLines[1] # GlobalLines[2]
    /\ Cardinality(DOMAIN registry_interfaces) = 1

\* the last call dispatched a global event whose body holds the name but ends
\* before the version field the decoder locates
VersionMissing ==
    /\ Dispatched
    /\ ObjType(objects, frame.obj_id) = "wl_registry"
    /\ frame.opcode = 0
    /\ Len(frame.body) >= 4
    /\ VersionStart(InterfaceEnd(frame.body, 4)) + 4 > Len(frame.body)

\* C9: a global event whose body is too short for the version field is stored
\* with version 0, under its name and with its interface, and returns Ok(true).
C9_VersionDefault ==
    VersionMissing
        => LET name == FromNeBytes(Slice(frame.body, 0, 4), big_endian)
               text == Slice(frame.body, 4, InterfaceEnd(frame.body, 4))
           IN
           /\ result.ret = "Ok(true)"
           /\ name \in DOMAIN registry_interfaces
           /\ registry_interfaces[name] = <<FromUtf8Lossy(text), 0>>

C9_Witness == VersionMissing /\ result.ret = "Ok(true)"

\* C10: when the peer has closed and no byte is unread, process_message returns
\* Ok(false), main leaves the loop for the report with catalog and object table
\* as they were, and the report leads to a normal exit.
C10_CleanClose ==
    /\ [][(pc = "loop" /\ count < MessageBudget /\ transport = "closed" /\ stream_in = <<>>)
            => /\ result' = [op |-> "process_message", ret |-> "Ok(false)", val |-> 0]
               /\ pc' = "print_info"
               /\ registry_interfaces' = registry_interfaces
               /\ objects' = objects
               /\ stdout' = Append(stdout, <<"Server closed connection">>)]_vars
    /\ [][pc = "print_info"
            => /\ pc' = "done"
               /\ registry_interfaces' = registry_interfaces
               /\ objects' = objects]_vars

\* the session ended normally after the peer closed behind whole messages
C10_Witness ==
    /\ pc = "done"
    /\ result.ret = "Ok(false)"
    /\ count >= 1 /\ sent = count
    /\ consumed > 0


\* C11: a stream that ends after 1 to 7 bytes of a header is reported as a
\* truncation, distinct from the clean end of stream: process_message does not
\* return Ok(false) for it.
C11_TruncatedHeaderDistinct ==
    [][(Reads /\ transport = "closed" /\ Len(stream_in) \in 1..(HeaderLen - 1))
         => result'.ret # "Ok(false)"]_vars


\* C12: when a whole header was read and the stream ends or fails before the
\* size - 8 body bytes, process_message returns an error, nothing is dispatched
\* (catalog, object table and output unchanged) and main stops for good.
C12_TruncatedBody ==
    /\ [][(/\ pc = "loop" /\ count < MessageBudget
           /\ transport # "open"
           /\ Len(stream_in) >= HeaderLen
           /\ NextHeader.size >= HeaderLen
           /\ Len(stream_in) < NextHeader.size)
            => /\ result' = [op |-> "process_message", ret |-> "Err", val |-> 0]
               /\ registry_interfaces' = registry_interfaces
               /\ objects' = objects
               /\ stdout' = stdout
               /\ count' = count
               /\ pc' = "failed"]_vars
    /\ [][pc # "failed"]_vars

\* main failed on a message whose header arrived and whose body did not
C12_Witness ==
    /\ pc = "failed"
    /\ result = [op |-> "process_message", ret |-> "Err", val |-> 0]
    /\ frame.read = "header" /\ frame.size > HeaderLen
    /\ consumed >= HeaderLen


\* C13: main writes the sync request (callback id 2) first, then the get_registry
\* request (registry id 3); both are written and both ids registered before the
\* first inbound header is read, and nothing is written once reading has begun.
C13_RequestsBeforeReads ==
    LET sync == SyncMsg(2, big_endian)
        both == sync \o GetRegistryMsg(3, big_endian)
        reading == \/ consumed > 0
                   \/ result.op = "process_message"
                   \/ pc \in {"loop", "print_info", "done", "panicked"}
    IN
    /\ stream_out \in {<<>>, sync, both}
    /\ stream_out # <<>> => (2 \in DOMAIN objects /\ objects[2] = "wl_callback")
    /\ reading => /\ stream_out = both
                  /\ DOMAIN objects = {1, 2, 3}
                  /\ objects[1] = "wl_display"
                  /\ objects[2] = "wl_callback"
                  /\ objects[3] = "wl_registry"
                  /\ next_id = 4

\* main is in its loop and has handled a message
C13_Witness == pc = "loop" /\ count >= 1 /\ consumed > 0 /\ result.ret = "Ok(true)"


\* C14: on a host of either byte order, the 12 bytes of a request are the
\* native-endian encodings of object id 1, of 12 | (opcode << 16) (opcode 0 for
\* sync, 1 for get_registry) and of the newly allocated id.
C14_NativeEndianRequest ==
    (IsSend(result) /\ result.ret = "Ok")
        => LET opcode == IF result.op = "send_sync" THEN WL_DISPLAY_SYNC
                         ELSE WL_DISPLAY_GET_REGISTRY
           IN LastRequest = ToNeBytes(DISPLAY_ID, big_endian)
                              \o ToNeBytes(12 + opcode * 65536, big_endian)
                              \o ToNeBytes(result.val, big_endian)


(***************************************************************************)
(* DecodeSpec: the global decoder applied to bodies drawn from a bounded   *)
(* set: a name, up to MaxText bytes of text, up to MaxPad NULs and then a  *)
(* version field or nothing.  The client has sent both requests, so id 3   *)
(* is the registry, and one such event is unread.                          *)
(***************************************************************************)
Texts == UNION {[1..n -> {97, 255}] : n \in 0..MaxText}

GlobalBodies(big) ==
    { ToNeBytes(5, big) \o text \o Zeros(z) \o tail :
        text \in Texts, z \in 0..MaxPad, tail \in {<<>>, ToNeBytes(1, big)} }

DecodeInit ==
    /\ big_endian \in BOOLEAN
    /\ objects = Insert(Insert(Insert(EmptyMap, DISPLAY_ID, "wl_display"),
                               2, "wl_callback"), 3, "wl_registry")
    /\ next_id = 4
    /\ registry_interfaces = EmptyMap
    /\ stream_out = SyncMsg(2, big_endian) \o GetRegistryMsg(3, big_endian)
    /\ \E body \in GlobalBodies(big_endian) :
          stream_in = Message(3, 0, body, big_endian)
    /\ transport = "open"
    /\ consumed = 0
    /\ sent = 1
    /\ stdout = <<>>
    /\ result = [op |-> "get_registry", ret |-> "Ok", val |-> 3]
    /\ frame = NoFrame
    /\ pc = "lib"
    /\ count = 0

DecodeNext == CallProcessMessage

DecodeSpec == DecodeInit /\ [][DecodeNext]_vars

\* the last call decoded a global event whose body holds the name
DecodedGlobal ==
    /\ Dispatched
    /\ frame.obj_id \in DOMAIN objects /\ objects[frame.obj_id] = "wl_registry"
    /\ frame.opcode = 0
    /\ Len(frame.body) >= 4

\* the offset at which the string scan of the last decoded global event stopped
ScanEnd == InterfaceEnd(frame.body, 4)

\* C15: the rounding applied to the string's end offset behaves as align4: the
\* result is at least the offset, a multiple of 4, and rounding it again changes
\* nothing.
C15_Align4 ==
    DecodedGlobal
        => /\ VersionStart(ScanEnd) >= ScanEnd
           /\ VersionStart(ScanEnd) % 4 = 0
           /\ VersionStart(VersionStart(ScanEnd)) = VersionStart(ScanEnd)

\* C15 as amended: the rounding gives the least multiple of 4 strictly above
\* the offset of the terminating NUL (it skips the terminator, so rounding an
\* aligned offset again adds 4), and the version stored is the word at that
\* offset, or 0 when the body ends before it.
C15_AlignAfterNul ==
    DecodedGlobal
        => LET v == VersionStart(ScanEnd) IN
           /\ v > ScanEnd
           /\ v - ScanEnd <= 4
           /\ v % 4 = 0
           /\ VersionStart(v) = v + 4
           /\ result.ret = "Ok(true)"
           /\ registry_interfaces[5][2]
                 = (IF v + 4 <= Len(frame.body)
                    THEN FromNeBytes(Slice(frame.body, v, v + 4), big_endian)
                    ELSE 0)

\* an empty text: the scan stopped at the aligned offset 4 and the version was
\* read at offset 8
C15_Witness ==
    /\ DecodedGlobal
    /\ ScanEnd = 4
    /\ Len(frame.body) = 12
    /\ registry_interfaces[5] = <<<<>>, 1>>


\* C16: a message whose (interface, opcode) is neither (registry, 0) nor
\* (callback, 0) is reported as unrecognized and does not end the session:
\* process_message prints a report of it and returns Ok(true).
C16_OthersReported ==
    (/\ Dispatched
     /\ ~(ObjType(objects, frame.obj_id) \in {"wl_registry", "wl_callback"}
            /\ frame.opcode = 0))
        => /\ result.ret = "Ok(true)"
           /\ Len(stdout) > 0
           /\ stdout[Len(stdout)] = <<"Unknown object", frame.obj_id, frame.opcode>>


(***************************************************************************)
(* BudgetSpec: main's session against a peer that keeps delivering, up to  *)
(* MaxBurst events: `done` events for the callback, or a header declaring  *)
(* size 0.  main is a single thread that takes its next step whenever it   *)
(* can, which is the weak fairness of its steps.                           *)
(***************************************************************************)
BurstEvents(big) ==
    { Message(2, 0, ToNeBytes(7, big), big),
      RawHeader(9, 0, 0, big) }

BurstSend ==
    /\ Running /\ transport = "open" /\ sent < MaxBurst /\ Len(stream_in) < MaxPending
    /\ \E m \in BurstEvents(big_endian) : stream_in' = stream_in \o m
    /\ sent' = sent + 1
    /\ UNCHANGED <<client, transport, consumed, big_endian, pc, count>>

MainStep == MainSendSync \/ MainGetRegistry \/ MainLoop \/ MainPrintInfo

BudgetNext == MainStep \/ BurstSend \/ ServerTruncate \/ ServerClose \/ TransportFail

BudgetSpec == MainInit /\ [][BudgetNext]_vars /\ WF_vars(MainStep)

\* main waits in a read for bytes the peer has not delivered
ReadBlocked ==
    /\ pc = "loop"
    /\ ProcessMessage(stream_in, transport, objects, registry_interfaces,
                      big_endian).blocked

IsReportLine(line) == line[1] = "Wayland Server Info"

Reports == SelectSeq(stdout, IsReportLine)

\* C17: the loop handles at most 20 messages and reads nothing after the 20th;
\* it is left for the report only at end of stream or with exactly 20 handled;
\* the report is printed once, last, on a normal exit, and not before; and if
\* no read blocks forever, main eventually leaves the loop.
C17_Budget ==
    /\ [](count <= 20)
    /\ [][count >= 20 => consumed' = consumed]_vars
    /\ [](pc = "print_info"
            => /\ Reports = <<>>
               /\ \/ result.ret = "Ok(false)"
                  \/ count = 20 /\ result.ret = "Ok(true)")
    /\ [](pc \in {"failed", "panicked"} => Reports = <<>>)
    /\ [](pc = "done"
            => /\ Len(Reports) = 1
               /\ stdout[Len(stdout)]
                    = <<"Wayland Server Info", registry_interfaces,
                        Cardinality(DOMAIN registry_interfaces)>>)
    /\ ([]<>(~ReadBlocked)) => <>(pc \in {"done", "failed", "panicked"})

\* main handled 20 messages and exited normally while a 21st was unread
C17_Witness ==
    /\ pc = "done"
    /\ count = 20
    /\ result.ret = "Ok(true)"
    /\ Len(stream_in) >= HeaderLen
    /\ Len(Reports) = 1


\* C18: process_message never changes the object table or the id counter, and
\* it changes the catalog only when it dispatches a whole message addressed to a
\* registered registry object with opcode 0.
C18_Frame ==
    [][/\ (Reads \/ (result'.op = "process_message" /\ result' # result))
            => /\ objects' = objects
               /\ next_id' = next_id
               /\ stream_out' = stream_out
       /\ registry_interfaces' # registry_interfaces
            => /\ Reads
               /\ WholeMessage
               /\ NextHeader.obj_id \in DOMAIN objects
               /\ objects[NextHeader.obj_id] = "wl_registry"
               /\ NextHeader.opcode = 0
      ]_vars

\* a done event was handled after a global event and left the catalog with the
\* entry it had
C18_Witness ==
    /\ Len(stdout) = 2
    /\ stdout[1][1] = "Global"
    /\ stdout[2] = <<"Sync callback received">>
    /\ result = [op |-> "process_message", ret |-> "Ok(true)", val |-> 0]
    /\ Cardinality(DOMAIN registry_interfaces) = 1


\* the interface tag a send registers
SendTag(op) == IF op = "send_sync" THEN "wl_callback" ELSE "wl_registry"

\* every send so far wrote its twelve bytes
AllSendsSucceeded == Len(stream_out) = 12 * (next_id - 2)

\* C19: after sends that all succeeded the keys of the object table are exactly
\* 1 .. next_id - 1, each with the tag of its request; a send whose write fails
\* returns an error and leaves the table unchanged but has advanced next_id, and
\* the id it allocated is never registered afterwards.
C19_TableTracksAllocator ==
    /\ [](AllSendsSucceeded => DOMAIN objects = 1..(next_id - 1))
    /\ [][(next_id' # next_id)
            => /\ IsSend(result')
               /\ next_id' = next_id + 1
               /\ result'.ret = "Ok"
                    => /\ stream_out' = stream_out \o LastRequest'
                       /\ objects' = Insert(objects, next_id, SendTag(result'.op))
               /\ result'.ret = "Err"
                    => /\ stream_out' = stream_out
                       /\ objects' = objects
               /\ result'.ret \in {"Ok", "Err"}]_vars
    /\ [][\A id \in 1..(next_id - 1) :
             /\ id \notin DOMAIN objects => id \notin DOMAIN objects'
             /\ id \in DOMAIN objects
                  => id \in DOMAIN objects' /\ objects'[id] = objects[id]]_vars

\* the first send failed and the second succeeded: id 2 stays unregistered
C19_Witness ==
    /\ next_id = 4
    /\ DOMAIN objects = {1, 3}
    /\ Len(stream_out) = 12
    /\ result.op = "process_message"


\* the body of the last decoded global event has no zero byte from offset 4 on
Unterminated == \A i \in 5..Len(frame.body) : frame.body[i] # 0

\* C20: for a global event whose body has at least 4 bytes and no zero byte from
\* offset 4 to its end, the scan stops at the length of the body, the interface
\* stored is the text of all bytes from offset 4 to the end, the version stored
\* is 0, and process_message returns Ok(true).
C20_UnterminatedString ==
    (DecodedGlobal /\ Unterminated)
        => /\ ScanEnd = Len(frame.body)
           /\ result.ret = "Ok(true)"
           /\ LET name == FromNeBytes(Slice(frame.body, 0, 4), big_endian) IN
              /\ name \in DOMAIN registry_interfaces
              /\ registry_interfaces[name]
                    = <<FromUtf8Lossy(Slice(frame.body, 4, Len(frame.body))), 0>>
           /\ consumed = HeaderLen + Len(frame.body)

\* a body of the name and three bytes of text, no terminator, was decoded
C20_Witness ==
    /\ DecodedGlobal
    /\ Unterminated
    /\ Len(frame.body) = 4 + MaxText
    /\ result.ret = "Ok(true)"
    /\ Len(stdout) = 1

====
